---- MODULE Spec2Model ----
(***************************************************************************)
(* Model of src/main.py: the start-up sequence (LED, WiFi candidate scan,  *)
(* MQTT connect, SCD-40 init) and the supervisory main loop with its WiFi  *)
(* and MQTT recovery branches.                                             *)
(*                                                                         *)
(* The program is one sequential thread; pc is its position.  Calls into   *)
(* the outside world (wlan.isconnected(), wlan.connect(), client.connect(),*)
(* client.publish(), sensor.read_measurement(), the I2C scan) are inputs:  *)
(* every call may return any of its outcomes.  Time is counted in tenths   *)
(* of a second and advances only in time.sleep(); time.time() differences  *)
(* are whole seconds (MicroPython), i.e. tenths \div 10.                   *)
(***************************************************************************)
EXTENDS Integers, Sequences, FiniteSets, TLC

\* ---------------------------------------------------------------- bounds
MaxNetworks == 2
MaxRetry == 2
MaxRun == 3

\* ------------------------------------------------------ program constants
ConnectTimeout == 15
ReconnectTimeout == 10
ErrorDisplay == 5
HeartbeatPulses == 6
PollSleep == 5
BlinkTenths == 4
BreakTenths == 10
WifiErrorCode == 1
MqttErrorCode == 2
SensorErrorCode == 3
RuntimeErrorCode == 4

VARIABLES
  pc,                            \* position of the single thread of control
  WIFI_NETWORKS,                 \* config: ordered list of candidate ssids
  idx,                           \* connect_wifi: position in the for loop
  wlan_ssid,                     \* ssid of the last wlan.connect() (0: none)
  tenths,                        \* time slept since the last start_time
  seen,                          \* the wait loop ended because isconnected()
  successful_network,            \* ssid returned by connect_wifi (0: None)
  client,                        \* "None" or "connected": the MQTTClient
  ret,                           \* return value of the last *_attempt call
  wifi_error_state,
  mqtt_error_state,
  wifi_reconnect_attempt_count,
  mqtt_reconnect_attempt_count,
  i,                             \* heartbeat pulses done in this cycle
  led_code,                      \* code of the running led_* error display
  blinks,                        \* led_error: blinks done in this pattern
  error_log,                     \* last line appended to error.log
  attempts,                      \* connect_wifi: one record per candidate tried
  trace,                         \* what the current/last tick has done
  healthy_ticks,                 \* consecutive healthy "no data" ticks
  waiting_events,                \* waiting events published during them
  measurement_events,            \* measurements published during them
  link_check,                    \* what the last wlan.isconnected() returned
  session_outage,                \* the link was seen down since client.connect()
  broker_ticks,                  \* MQTT-branch ticks since the last failed publish
  link_failures                  \* failed WiFi reconnects since the link was lost

vars == <<pc, WIFI_NETWORKS, idx, wlan_ssid, tenths, seen, successful_network,
          client, ret, wifi_error_state, mqtt_error_state,
          wifi_reconnect_attempt_count, mqtt_reconnect_attempt_count, i,
          led_code, blinks, error_log, attempts, trace, healthy_ticks,
          waiting_events, measurement_events, link_check, session_outage,
          broker_ticks, link_failures>>

startupVars == <<WIFI_NETWORKS, idx, seen, successful_network, attempts>>
flagVars == <<wifi_error_state, mqtt_error_state,
              wifi_reconnect_attempt_count, mqtt_reconnect_attempt_count>>
runVars == <<healthy_ticks, waiting_events, measurement_events>>
obsVars == <<link_check, session_outage, broker_ticks>>

\* ---------------------------------------------------------------- helpers
\* time.time() - start_time, in whole seconds
Elapsed(t) == t \div 10

\* one entry of the per-tick trace
Ev(op, arg, ok, n) == [op |-> op, arg |-> arg, ok |-> ok, n |-> n]

Has(tr, op, arg) == \E k \in DOMAIN tr : tr[k].op = op /\ tr[k].arg = arg
HasOp(tr, op) == \E k \in DOMAIN tr : tr[k].op = op
Count(tr, op, arg, ok) ==
  Cardinality({k \in DOMAIN tr : tr[k].op = op /\ tr[k].arg = arg /\ tr[k].ok = ok})

\* the ConnectionState the two flags encode (WiFi is tested first)
ConnectionState ==
  IF wifi_error_state THEN "RecoveringLink"
  ELSE IF mqtt_error_state THEN "RecoveringBroker"
  ELSE "Normal"

\* a tick in which the link was up, the sensor had no data and no publish failed
HealthyNoData(tr) ==
  /\ Has(tr, "link", "up")
  /\ Has(tr, "sensor", "none")
  /\ ~ \E k \in DOMAIN tr : tr[k].op = "publish" /\ ~tr[k].ok

\* bookkeeping at the end of a tick whose trace is tr: the run of consecutive
\* healthy no-data ticks, and what was published during the run
EndOfTick(tr) ==
  LET fresh == healthy_ticks = MaxRun
      w == Count(tr, "publish", "waiting", TRUE)
      m == Count(tr, "publish", "telemetry", TRUE)
  IN IF HealthyNoData(tr)
     THEN /\ healthy_ticks' = (IF fresh THEN 0 ELSE healthy_ticks) + 1
          /\ waiting_events' = (IF fresh THEN 0 ELSE waiting_events) + w
          /\ measurement_events' = (IF fresh THEN 0 ELSE measurement_events) + m
     ELSE /\ healthy_ticks' = 0
          /\ waiting_events' = 0
          /\ measurement_events' = 0

\* ------------------------------------------------------------------- Init
Init ==
  /\ pc = "led_startup"
  /\ WIFI_NETWORKS \in {[k \in 1..n |-> k] : n \in 0..MaxNetworks}
  /\ idx = 1
  /\ wlan_ssid = 0
  /\ tenths = 0
  /\ seen = FALSE
  /\ successful_network = 0
  /\ client = "None"
  /\ ret = FALSE
  /\ wifi_error_state = FALSE
  /\ mqtt_error_state = FALSE
  /\ wifi_reconnect_attempt_count = 0
  /\ mqtt_reconnect_attempt_count = 0
  /\ i = 0
  /\ led_code = 0
  /\ blinks = 0
  /\ error_log = ""
  /\ attempts = <<>>
  /\ trace = <<>>
  /\ healthy_ticks = 0
  /\ waiting_events = 0
  /\ measurement_events = 0
  /\ link_check = "none"
  /\ session_outage = FALSE
  /\ broker_ticks = 0
  /\ link_failures = 0

\* ------------------------------------------------------------ LED helpers
\* led_startup(): solid on for 5 seconds, then connect_wifi() is called
led_startup ==
  /\ pc = "led_startup"
  /\ pc' = "cw_for"
  /\ idx' = 1
  /\ UNCHANGED <<WIFI_NETWORKS, wlan_ssid, tenths, seen, successful_network,
                 client, ret, flagVars, i, led_code, blinks, error_log,
                 attempts, trace, runVars>>
  /\ UNCHANGED obsVars
  /\ UNCHANGED link_failures

\* led_error(code): while True: code blinks, 1 second break.  Never returns.
led_error ==
  /\ pc = "led_error"
  /\ blinks' = IF blinks < led_code THEN blinks + 1 ELSE 0
  /\ UNCHANGED <<pc, startupVars, wlan_ssid, tenths, client, ret, flagVars, i,
                 led_code, error_log, trace, runVars>>
  /\ UNCHANGED obsVars
  /\ UNCHANGED link_failures

\* led_continuous_error(code, duration): one iteration of its while loop per
\* step; both callers continue with the next tick when it returns.
led_continuous_error ==
  /\ pc = "led_continuous_error"
  /\ IF Elapsed(tenths) < ErrorDisplay
     THEN LET shown == tenths + BlinkTenths * led_code
              remaining == ErrorDisplay - Elapsed(shown)
          IN IF remaining > 1
             THEN /\ tenths' = shown + BreakTenths
                  /\ UNCHANGED <<pc, led_code, trace, runVars>>
             ELSE IF remaining > 0
             THEN /\ trace' = Append(trace, Ev("led", "shown",
                                   Elapsed(shown + 10 * remaining) >= ErrorDisplay,
                                   led_code))
                  /\ EndOfTick(trace')
                  /\ tenths' = 0
                  /\ led_code' = 0
                  /\ pc' = "loop_top"
             ELSE /\ tenths' = shown
                  /\ UNCHANGED <<pc, led_code, trace, runVars>>
     ELSE /\ trace' = Append(trace, Ev("led", "shown",
                                       Elapsed(tenths) >= ErrorDisplay, led_code))
          /\ EndOfTick(trace')
          /\ tenths' = 0
          /\ led_code' = 0
          /\ pc' = "loop_top"
  /\ UNCHANGED <<startupVars, wlan_ssid, client, ret, flagVars, i, blinks,
                 error_log>>
  /\ UNCHANGED obsVars
  /\ UNCHANGED link_failures

\* --------------------------------------------------------- connect_wifi()
\* what connect_wifi did with the candidate it is at: the ssid it passed to
\* wlan.connect(), whether an isconnected() of its wait loop returned True,
\* whether the wait lasted beyond the timeout, and what the isconnected() after
\* the loop returned
Attempt(connected) ==
  [ssid |-> wlan_ssid,
   seen |-> seen,
   timed_out |-> Elapsed(tenths) > ConnectTimeout,
   connected |-> connected]

\* for network_info in WIFI_NETWORKS: wlan.connect(ssid, password)
cw_for_connect ==
  /\ pc = "cw_for"
  /\ idx <= Len(WIFI_NETWORKS)
  /\ wlan_ssid' = WIFI_NETWORKS[idx]
  /\ tenths' = 0
  /\ seen' = FALSE
  /\ pc' = "cw_while"
  /\ UNCHANGED <<WIFI_NETWORKS, idx, successful_network, client, ret, flagVars,
                 i, led_code, blinks, error_log, attempts, trace, runVars>>
  /\ UNCHANGED obsVars
  /\ UNCHANGED link_failures

\* the list is exhausted: log, return (None, None); the caller calls led_error(1)
cw_for_exhausted ==
  /\ pc = "cw_for"
  /\ idx > Len(WIFI_NETWORKS)
  /\ error_log' = "WiFi connection failed - all networks exhausted"
  /\ successful_network' = 0
  /\ pc' = "startup_wifi"
  /\ UNCHANGED <<WIFI_NETWORKS, idx, wlan_ssid, tenths, seen, client, ret,
                 flagVars, i, led_code, blinks, attempts, trace, runVars>>
  /\ UNCHANGED obsVars
  /\ UNCHANGED link_failures

\* while not wlan.isconnected(): isconnected() returned True
cw_while_connected ==
  /\ pc = "cw_while"
  /\ seen' = TRUE
  /\ pc' = "cw_if"
  /\ UNCHANGED <<WIFI_NETWORKS, idx, wlan_ssid, tenths, successful_network,
                 client, ret, flagVars, i, led_code, blinks, error_log,
                 attempts, trace, runVars>>
  /\ link_check' = "up"
  /\ UNCHANGED <<session_outage, broker_ticks>>
  /\ UNCHANGED link_failures

\* variant of cw_while_timeout: the break is taken without the timeout test
cw_while_timeout_early ==
  /\ pc = "cw_while"
  /\ pc' = "cw_if"
  /\ UNCHANGED <<WIFI_NETWORKS, idx, wlan_ssid, tenths, seen,
                 successful_network, client, ret, flagVars, i, led_code,
                 blinks, error_log, attempts, trace, runVars>>
  /\ link_check' = "down"
  /\ UNCHANGED <<session_outage, broker_ticks>>
  /\ UNCHANGED link_failures

\* isconnected() returned False and elapsed > timeout: break
cw_while_timeout ==
  /\ pc = "cw_while"
  /\ Elapsed(tenths) > ConnectTimeout
  /\ pc' = "cw_if"
  /\ UNCHANGED <<WIFI_NETWORKS, idx, wlan_ssid, tenths, seen,
                 successful_network, client, ret, flagVars, i, led_code,
                 blinks, error_log, attempts, trace, runVars>>
  /\ link_check' = "down"
  /\ UNCHANGED <<session_outage, broker_ticks>>
  /\ UNCHANGED link_failures

\* isconnected() returned False, no timeout yet: time.sleep(0.5)
cw_while_sleep ==
  /\ pc = "cw_while"
  /\ ~(Elapsed(tenths) > ConnectTimeout)
  /\ tenths' = tenths + PollSleep
  /\ UNCHANGED <<pc, WIFI_NETWORKS, idx, wlan_ssid, seen, successful_network,
                 client, ret, flagVars, i, led_code, blinks, error_log,
                 attempts, trace, runVars>>
  /\ link_check' = "down"
  /\ UNCHANGED <<session_outage, broker_ticks>>
  /\ UNCHANGED link_failures

\* if wlan.isconnected(): return wlan, network_info
cw_if_connected ==
  /\ pc = "cw_if"
  /\ successful_network' = WIFI_NETWORKS[idx]
  /\ attempts' = Append(attempts, Attempt(TRUE))
  /\ tenths' = 0
  /\ seen' = FALSE
  /\ pc' = "startup_wifi"
  /\ UNCHANGED <<WIFI_NETWORKS, idx, wlan_ssid, client, ret, flagVars, i,
                 led_code, blinks, error_log, trace, runVars>>
  /\ link_check' = "up"
  /\ UNCHANGED <<session_outage, broker_ticks>>
  /\ UNCHANGED link_failures

\* else: "Failed to connect", next candidate
cw_if_failed ==
  /\ pc = "cw_if"
  /\ attempts' = Append(attempts, Attempt(FALSE))
  /\ idx' = idx + 1
  /\ tenths' = 0
  /\ seen' = FALSE
  /\ pc' = "cw_for"
  /\ UNCHANGED <<WIFI_NETWORKS, wlan_ssid, successful_network, client, ret,
                 flagVars, i, led_code, blinks, error_log, trace, runVars>>
  /\ link_check' = "down"
  /\ UNCHANGED <<session_outage, broker_ticks>>
  /\ UNCHANGED link_failures

\* ---------------------------------------------------------------- startup
\* if not wlan or not successful_network: led_error(1)
startup_wifi_failed ==
  /\ pc = "startup_wifi"
  /\ successful_network = 0
  /\ led_code' = WifiErrorCode
  /\ blinks' = 0
  /\ pc' = "led_error"
  /\ UNCHANGED <<startupVars, wlan_ssid, tenths, client, ret, flagVars, i,
                 error_log, trace, runVars>>
  /\ UNCHANGED obsVars
  /\ UNCHANGED link_failures

\* client = MQTTClient(...); client.connect() succeeded
startup_mqtt_connected ==
  /\ pc = "startup_wifi"
  /\ successful_network # 0
  /\ client' = "connected"
  /\ pc' = "sensor_init"
  /\ UNCHANGED <<startupVars, wlan_ssid, tenths, ret, flagVars, i, led_code,
                 blinks, error_log, trace, runVars>>
  /\ session_outage' = FALSE
  /\ UNCHANGED <<link_check, broker_ticks>>
  /\ UNCHANGED link_failures

\* client.connect() raised: log, led_error(2)
startup_mqtt_failed ==
  /\ pc = "startup_wifi"
  /\ successful_network # 0
  /\ error_log' = "MQTT connection failed"
  /\ led_code' = MqttErrorCode
  /\ blinks' = 0
  /\ pc' = "led_error"
  /\ UNCHANGED <<startupVars, wlan_ssid, tenths, client, ret, flagVars, i,
                 trace, runVars>>
  /\ UNCHANGED obsVars
  /\ UNCHANGED link_failures

\* 0x62 found, SCD40(i2c), start_periodic_measurement(); the loop state is set
sensor_init_ok ==
  /\ pc = "sensor_init"
  /\ wifi_error_state' = FALSE
  /\ mqtt_error_state' = FALSE
  /\ wifi_reconnect_attempt_count' = 0
  /\ mqtt_reconnect_attempt_count' = 0
  /\ pc' = "loop_top"
  /\ UNCHANGED <<startupVars, wlan_ssid, tenths, client, ret, i, led_code,
                 blinks, error_log, trace, runVars>>
  /\ UNCHANGED obsVars
  /\ UNCHANGED link_failures

\* 0x62 not in devices: log, led_error(3)
sensor_init_absent ==
  /\ pc = "sensor_init"
  /\ error_log' = "SCD-40 not found on I2C bus"
  /\ led_code' = SensorErrorCode
  /\ blinks' = 0
  /\ pc' = "led_error"
  /\ UNCHANGED <<startupVars, wlan_ssid, tenths, client, ret, flagVars, i,
                 trace, runVars>>
  /\ UNCHANGED obsVars
  /\ UNCHANGED link_failures

\* the I2C set-up or the driver raised: log, led_error(3)
sensor_init_fault ==
  /\ pc = "sensor_init"
  /\ error_log' = "Sensor initialization failed"
  /\ led_code' = SensorErrorCode
  /\ blinks' = 0
  /\ pc' = "led_error"
  /\ UNCHANGED <<startupVars, wlan_ssid, tenths, client, ret, flagVars, i,
                 trace, runVars>>
  /\ UNCHANGED obsVars
  /\ UNCHANGED link_failures

\* ------------------------------------------------- main loop: top of tick
\* if wifi_error_state or ...: the flag is set, isconnected() is not called
tick_wifi_error_state ==
  /\ pc = "loop_top"
  /\ wifi_error_state
  /\ trace' = <<Ev("link", "unchecked", TRUE, 0)>>
  /\ pc' = "wra_connect"
  /\ UNCHANGED <<startupVars, wlan_ssid, tenths, client, ret, flagVars, i,
                 led_code, blinks, error_log, runVars>>
  /\ UNCHANGED obsVars
  /\ UNCHANGED link_failures

\* variant of tick_link_lost: the MQTT branch is tested before the WiFi branch
tick_link_lost_mqtt_first ==
  /\ pc = "loop_top"
  /\ ~wifi_error_state
  /\ trace' = <<Ev("link", "down", TRUE, 0)>>
  /\ IF mqtt_error_state
     THEN /\ pc' = "mra_check"
          /\ UNCHANGED <<error_log, wifi_error_state, wifi_reconnect_attempt_count>>
     ELSE /\ error_log' = "WiFi connection lost - attempting reconnection"
          /\ wifi_error_state' = TRUE
          /\ wifi_reconnect_attempt_count' = 0
          /\ pc' = "wra_connect"
  /\ UNCHANGED <<startupVars, wlan_ssid, tenths, client, ret, mqtt_error_state,
                 mqtt_reconnect_attempt_count, i, led_code, blinks, runVars>>
  /\ link_check' = "down"
  /\ session_outage' = TRUE
  /\ UNCHANGED <<broker_ticks>>
  /\ link_failures' = 0

\* ... or not wlan.isconnected(): returned False with the flag clear; the
\* disconnection is logged and the WiFi recovery state entered
tick_link_lost ==
  /\ pc = "loop_top"
  /\ ~wifi_error_state
  /\ trace' = <<Ev("link", "down", TRUE, 0)>>
  /\ error_log' = "WiFi connection lost - attempting reconnection"
  /\ wifi_error_state' = TRUE
  /\ wifi_reconnect_attempt_count' = 0
  /\ pc' = "wra_connect"
  /\ UNCHANGED <<startupVars, wlan_ssid, tenths, client, ret, mqtt_error_state,
                 mqtt_reconnect_attempt_count, i, led_code, blinks, runVars>>
  /\ link_check' = "down"
  /\ session_outage' = TRUE
  /\ UNCHANGED <<broker_ticks>>
  /\ link_failures' = 0

\* isconnected() returned True and mqtt_error_state is set
tick_mqtt_error_state ==
  /\ pc = "loop_top"
  /\ ~wifi_error_state
  /\ mqtt_error_state
  /\ trace' = <<Ev("link", "up", TRUE, 0)>>
  /\ pc' = "mra_check"
  /\ UNCHANGED <<startupVars, wlan_ssid, tenths, client, ret, flagVars, i,
                 led_code, blinks, error_log, runVars>>
  /\ link_check' = "up"
  /\ broker_ticks' = broker_ticks + 1
  /\ UNCHANGED <<session_outage>>
  /\ UNCHANGED link_failures

\* isconnected() returned True and no flag is set: the 60 second cycle starts
tick_normal ==
  /\ pc = "loop_top"
  /\ ~wifi_error_state
  /\ ~mqtt_error_state
  /\ trace' = <<Ev("link", "up", TRUE, 0)>>
  /\ i' = 0
  /\ pc' = "flash"
  /\ UNCHANGED <<startupVars, wlan_ssid, tenths, client, ret, flagVars,
                 led_code, blinks, error_log, runVars>>
  /\ link_check' = "up"
  /\ UNCHANGED <<session_outage, broker_ticks>>
  /\ UNCHANGED link_failures

\* variant of wra_connect: the scan restarts at the head of WIFI_NETWORKS
wra_connect_first_candidate ==
  /\ pc = "wra_connect"
  /\ wlan_ssid' = WIFI_NETWORKS[1]
  /\ tenths' = 0
  /\ trace' = Append(trace, Ev("wifi_connect", "call", TRUE, wlan_ssid'))
  /\ pc' = "wra_while"
  /\ UNCHANGED <<startupVars, client, ret, flagVars, i, led_code, blinks,
                 error_log, runVars>>
  /\ UNCHANGED obsVars
  /\ UNCHANGED link_failures

\* ------------------------------- wifi_reconnect_attempt(wlan, network_info)
\* wlan.connect(ssid, password) of the network connect_wifi returned
wra_connect ==
  /\ pc = "wra_connect"
  /\ wlan_ssid' = successful_network
  /\ tenths' = 0
  /\ trace' = Append(trace, Ev("wifi_connect", "call", TRUE, wlan_ssid'))
  /\ pc' = "wra_while"
  /\ UNCHANGED <<startupVars, client, ret, flagVars, i, led_code, blinks,
                 error_log, runVars>>
  /\ UNCHANGED obsVars
  /\ UNCHANGED link_failures

\* wlan.connect() raised: except Exception: log, return False
wra_connect_raised ==
  /\ pc = "wra_connect"
  /\ wifi_reconnect_attempt_count < MaxRetry
  /\ trace' = Append(trace, Ev("wifi_connect", "raised", FALSE, successful_network))
  /\ error_log' = "WiFi reconnection error"
  /\ ret' = FALSE
  /\ pc' = "wifi_result"
  /\ UNCHANGED <<startupVars, wlan_ssid, tenths, client, flagVars, i, led_code,
                 blinks, runVars>>
  /\ UNCHANGED obsVars
  /\ link_failures' = link_failures + 1

\* while not wlan.isconnected(): returned True
wra_while_connected ==
  /\ pc = "wra_while"
  /\ pc' = "wra_if"
  /\ UNCHANGED <<startupVars, wlan_ssid, tenths, client, ret, flagVars, i,
                 led_code, blinks, error_log, trace, runVars>>
  /\ link_check' = "up"
  /\ UNCHANGED <<session_outage, broker_ticks>>
  /\ UNCHANGED link_failures

\* returned False and elapsed > timeout: break
wra_while_timeout ==
  /\ pc = "wra_while"
  /\ Elapsed(tenths) > ReconnectTimeout
  /\ pc' = "wra_if"
  /\ UNCHANGED <<startupVars, wlan_ssid, tenths, client, ret, flagVars, i,
                 led_code, blinks, error_log, trace, runVars>>
  /\ link_check' = "down"
  /\ session_outage' = TRUE
  /\ UNCHANGED <<broker_ticks>>
  /\ UNCHANGED link_failures

\* returned False, no timeout: led_error_pattern(1); time.sleep(0.5)
wra_while_pattern ==
  /\ pc = "wra_while"
  /\ ~(Elapsed(tenths) > ReconnectTimeout)
  /\ tenths' = tenths + BlinkTenths * WifiErrorCode + BreakTenths + PollSleep
  /\ UNCHANGED <<pc, startupVars, wlan_ssid, client, ret, flagVars, i,
                 led_code, blinks, error_log, trace, runVars>>
  /\ link_check' = "down"
  /\ session_outage' = TRUE
  /\ UNCHANGED <<broker_ticks>>
  /\ UNCHANGED link_failures

\* if wlan.isconnected(): return True
wra_if_connected ==
  /\ pc = "wra_if"
  /\ ret' = TRUE
  /\ tenths' = 0
  /\ pc' = "wifi_result"
  /\ UNCHANGED <<startupVars, wlan_ssid, client, flagVars, i, led_code,
                 blinks, error_log, trace, runVars>>
  /\ link_check' = "up"
  /\ UNCHANGED <<session_outage, broker_ticks>>
  /\ UNCHANGED link_failures

\* else: log, return False
wra_if_failed ==
  /\ pc = "wra_if"
  /\ wifi_reconnect_attempt_count < MaxRetry
  /\ error_log' = "WiFi reconnection failed"
  /\ ret' = FALSE
  /\ tenths' = 0
  /\ pc' = "wifi_result"
  /\ UNCHANGED <<startupVars, wlan_ssid, client, flagVars, i, led_code,
                 blinks, trace, runVars>>
  /\ link_check' = "down"
  /\ session_outage' = TRUE
  /\ UNCHANGED <<broker_ticks>>
  /\ link_failures' = link_failures + 1

\* variant of wifi_reconnect_success: the MQTT state is left as it was
wifi_reconnect_success_keeps_mqtt ==
  /\ pc = "wifi_result"
  /\ ret
  /\ wifi_error_state' = FALSE
  /\ wifi_reconnect_attempt_count' = 0
  /\ trace' = Append(trace, Ev("wifi_reconnect", "result", TRUE, 0))
  /\ EndOfTick(trace')
  /\ pc' = "loop_top"
  /\ UNCHANGED <<startupVars, wlan_ssid, tenths, client, ret, mqtt_error_state,
                 mqtt_reconnect_attempt_count, i, led_code, blinks, error_log>>
  /\ UNCHANGED obsVars
  /\ link_failures' = 0

\* variant of wifi_reconnect_success: the MQTT state is marked for recovery
wifi_reconnect_success_marks_mqtt ==
  /\ pc = "wifi_result"
  /\ ret
  /\ wifi_error_state' = FALSE
  /\ mqtt_error_state' = TRUE
  /\ mqtt_reconnect_attempt_count' = 0
  /\ wifi_reconnect_attempt_count' = 0
  /\ trace' = Append(trace, Ev("wifi_reconnect", "result", TRUE, 0))
  /\ EndOfTick(trace')
  /\ pc' = "loop_top"
  /\ link_failures' = 0
  /\ UNCHANGED <<startupVars, wlan_ssid, tenths, client, ret, i, led_code,
                 blinks, error_log, link_check, session_outage, broker_ticks>>

\* ------------------------------------------ main loop: WiFi error branch
\* wifi_reconnect_attempt returned True: both flags and both counters reset
wifi_reconnect_success ==
  /\ pc = "wifi_result"
  /\ ret
  /\ wifi_error_state' = FALSE
  /\ mqtt_error_state' = FALSE
  /\ mqtt_reconnect_attempt_count' =
       IF mqtt_error_state THEN 0 ELSE mqtt_reconnect_attempt_count
  /\ wifi_reconnect_attempt_count' = 0
  /\ trace' = trace
               \o (IF mqtt_error_state
                   THEN <<Ev("mqtt_reset", "print", TRUE, mqtt_reconnect_attempt_count)>>
                   ELSE <<>>)
               \o <<Ev("wifi_reconnect", "result", TRUE, 0)>>
  /\ EndOfTick(trace')
  /\ pc' = "loop_top"
  /\ UNCHANGED <<startupVars, wlan_ssid, tenths, client, ret, i, led_code,
                 blinks, error_log>>
  /\ UNCHANGED obsVars
  /\ link_failures' = 0

\* variant of wifi_reconnect_failed: the counter is not incremented
wifi_reconnect_failed_no_count ==
  /\ pc = "wifi_result"
  /\ ~ret
  /\ wifi_reconnect_attempt_count < MaxRetry
  /\ trace' = Append(trace, Ev("wifi_reconnect", "result", FALSE,
                               wifi_reconnect_attempt_count))
  /\ led_code' = WifiErrorCode
  /\ tenths' = 0
  /\ pc' = "led_continuous_error"
  /\ UNCHANGED <<startupVars, wlan_ssid, client, ret, flagVars, i, blinks,
                 error_log, runVars, obsVars, link_failures>>

\* variant of wifi_reconnect_failed: after the second failure the program gives
\* up with led_error(1)
wifi_reconnect_failed_gives_up ==
  /\ pc = "wifi_result"
  /\ ~ret
  /\ wifi_reconnect_attempt_count < MaxRetry
  /\ wifi_reconnect_attempt_count' = wifi_reconnect_attempt_count + 1
  /\ trace' = Append(trace, Ev("wifi_reconnect", "result", FALSE,
                               wifi_reconnect_attempt_count'))
  /\ led_code' = WifiErrorCode
  /\ tenths' = 0
  /\ pc' = IF wifi_reconnect_attempt_count' >= 2 THEN "led_error"
                                                 ELSE "led_continuous_error"
  /\ UNCHANGED <<startupVars, wlan_ssid, client, ret, wifi_error_state,
                 mqtt_error_state, mqtt_reconnect_attempt_count, i, blinks,
                 error_log, runVars, obsVars, link_failures>>

\* it returned False: count += 1, led_continuous_error(1, 5)
wifi_reconnect_failed ==
  /\ pc = "wifi_result"
  /\ ~ret
  /\ wifi_reconnect_attempt_count < MaxRetry
  /\ wifi_reconnect_attempt_count' = wifi_reconnect_attempt_count + 1
  /\ trace' = Append(trace, Ev("wifi_reconnect", "result", FALSE,
                               wifi_reconnect_attempt_count'))
  /\ led_code' = WifiErrorCode
  /\ tenths' = 0
  /\ pc' = "led_continuous_error"
  /\ UNCHANGED <<startupVars, wlan_ssid, client, ret, wifi_error_state,
                 mqtt_error_state, mqtt_reconnect_attempt_count, i, blinks,
                 error_log, runVars>>
  /\ UNCHANGED obsVars
  /\ UNCHANGED link_failures

\* variant of mra_wifi_down: the link is found down and the connect is made all
\* the same
mra_wifi_down_connects ==
  /\ pc = "mra_check"
  /\ mqtt_reconnect_attempt_count < MaxRetry
  /\ trace' = Append(trace, Ev("mqtt_link", "down", FALSE, 0))
  /\ pc' = "mra_connect"
  /\ UNCHANGED <<startupVars, wlan_ssid, tenths, client, ret, flagVars, i,
                 led_code, blinks, error_log, runVars>>
  /\ link_check' = "down"
  /\ session_outage' = TRUE
  /\ UNCHANGED <<broker_ticks>>
  /\ UNCHANGED link_failures

\* ------------------------------------------- mqtt_reconnect_attempt(wlan)
\* if not wlan.isconnected(): return False
mra_wifi_down ==
  /\ pc = "mra_check"
  /\ mqtt_reconnect_attempt_count < MaxRetry
  /\ trace' = Append(trace, Ev("mqtt_link", "down", FALSE, 0))
  /\ ret' = FALSE
  /\ pc' = "mqtt_result"
  /\ UNCHANGED <<startupVars, wlan_ssid, tenths, client, flagVars, i, led_code,
                 blinks, error_log, runVars>>
  /\ link_check' = "down"
  /\ session_outage' = TRUE
  /\ UNCHANGED <<broker_ticks>>
  /\ UNCHANGED link_failures

\* isconnected() returned True: go on to the connect
mra_wifi_up ==
  /\ pc = "mra_check"
  /\ trace' = Append(trace, Ev("mqtt_link", "up", TRUE, 0))
  /\ pc' = "mra_connect"
  /\ UNCHANGED <<startupVars, wlan_ssid, tenths, client, ret, flagVars, i,
                 led_code, blinks, error_log, runVars>>
  /\ link_check' = "up"
  /\ UNCHANGED <<session_outage, broker_ticks>>
  /\ UNCHANGED link_failures

\* client = MQTTClient(...); client.connect() succeeded: return True
mra_connected ==
  /\ pc = "mra_connect"
  /\ client' = "connected"
  /\ trace' = Append(trace, Ev("mqtt_connect", "call", TRUE, 0))
  /\ ret' = TRUE
  /\ pc' = "mqtt_result"
  /\ UNCHANGED <<startupVars, wlan_ssid, tenths, flagVars, i, led_code, blinks,
                 error_log, runVars>>
  /\ session_outage' = FALSE
  /\ UNCHANGED <<link_check, broker_ticks>>
  /\ UNCHANGED link_failures

\* client.connect() raised: log, return False (client is the new, unconnected
\* MQTTClient)
mra_failed ==
  /\ pc = "mra_connect"
  /\ mqtt_reconnect_attempt_count < MaxRetry
  /\ client' = "unconnected"
  /\ trace' = Append(trace, Ev("mqtt_connect", "call", FALSE, 0))
  /\ error_log' = "MQTT reconnection failed"
  /\ ret' = FALSE
  /\ pc' = "mqtt_result"
  /\ UNCHANGED <<startupVars, wlan_ssid, tenths, flagVars, i, led_code, blinks,
                 runVars>>
  /\ session_outage' = FALSE
  /\ UNCHANGED <<link_check, broker_ticks>>
  /\ UNCHANGED link_failures

\* variant of mqtt_reconnected_published: the flag is cleared and the count is
\* left at its value
mqtt_reconnected_published_keeps_count ==
  /\ pc = "mqtt_result"
  /\ ret
  /\ trace' = trace \o <<Ev("mqtt_count", "inc", TRUE, mqtt_reconnect_attempt_count + 1),
                         Ev("publish", "mqtt_reconnected", TRUE,
                            mqtt_reconnect_attempt_count + 1)>>
  /\ mqtt_error_state' = FALSE
  /\ mqtt_reconnect_attempt_count' = mqtt_reconnect_attempt_count + 1
  /\ EndOfTick(trace')
  /\ pc' = "loop_top"
  /\ UNCHANGED <<startupVars, wlan_ssid, tenths, client, ret, wifi_error_state,
                 wifi_reconnect_attempt_count, i, led_code, blinks, error_log>>
  /\ UNCHANGED obsVars
  /\ UNCHANGED link_failures

\* variant of mqtt_reconnected_published: the event carries the count as it was
\* before the increment
mqtt_reconnected_published_stale_attempts ==
  /\ pc = "mqtt_result"
  /\ ret
  /\ trace' = trace \o <<Ev("mqtt_count", "inc", TRUE, mqtt_reconnect_attempt_count + 1),
                         Ev("publish", "mqtt_reconnected", TRUE,
                            mqtt_reconnect_attempt_count)>>
  /\ mqtt_error_state' = FALSE
  /\ mqtt_reconnect_attempt_count' = 0
  /\ EndOfTick(trace')
  /\ pc' = "loop_top"
  /\ UNCHANGED <<startupVars, wlan_ssid, tenths, client, ret, wifi_error_state,
                 wifi_reconnect_attempt_count, i, led_code, blinks, error_log>>
  /\ UNCHANGED obsVars
  /\ UNCHANGED link_failures

\* ------------------------------------------ main loop: MQTT error branch
\* reconnected, count += 1, the mqtt_reconnected event was published
mqtt_reconnected_published ==
  /\ pc = "mqtt_result"
  /\ ret
  /\ trace' = trace \o <<Ev("mqtt_count", "inc", TRUE, mqtt_reconnect_attempt_count + 1),
                         Ev("publish", "mqtt_reconnected", TRUE,
                            mqtt_reconnect_attempt_count + 1)>>
  /\ mqtt_error_state' = FALSE
  /\ mqtt_reconnect_attempt_count' = 0
  /\ EndOfTick(trace')
  /\ pc' = "loop_top"
  /\ UNCHANGED <<startupVars, wlan_ssid, tenths, client, ret, wifi_error_state,
                 wifi_reconnect_attempt_count, i, led_code, blinks, error_log>>
  /\ UNCHANGED obsVars
  /\ UNCHANGED link_failures

\* variant of mqtt_reconnected_publish_failed: the state is cleared although the
\* notification was not published
mqtt_reconnected_publish_failed_silent ==
  /\ pc = "mqtt_result"
  /\ ret
  /\ trace' = trace \o <<Ev("mqtt_count", "inc", TRUE, mqtt_reconnect_attempt_count + 1),
                         Ev("publish", "mqtt_reconnected", FALSE,
                            mqtt_reconnect_attempt_count + 1)>>
  /\ mqtt_error_state' = FALSE
  /\ mqtt_reconnect_attempt_count' = 0
  /\ EndOfTick(trace')
  /\ pc' = "loop_top"
  /\ UNCHANGED <<startupVars, wlan_ssid, tenths, client, ret, wifi_error_state,
                 wifi_reconnect_attempt_count, i, led_code, blinks, error_log>>
  /\ UNCHANGED obsVars
  /\ UNCHANGED link_failures

\* reconnected, count += 1, the publish raised: except: pass
mqtt_reconnected_publish_failed ==
  /\ pc = "mqtt_result"
  /\ ret
  /\ mqtt_reconnect_attempt_count < MaxRetry
  /\ trace' = trace \o <<Ev("mqtt_count", "inc", TRUE, mqtt_reconnect_attempt_count + 1),
                         Ev("publish", "mqtt_reconnected", FALSE,
                            mqtt_reconnect_attempt_count + 1)>>
  /\ mqtt_reconnect_attempt_count' = mqtt_reconnect_attempt_count + 1
  /\ EndOfTick(trace')
  /\ pc' = "loop_top"
  /\ UNCHANGED <<startupVars, wlan_ssid, tenths, client, ret, wifi_error_state,
                 mqtt_error_state, wifi_reconnect_attempt_count, i, led_code,
                 blinks, error_log>>
  /\ UNCHANGED obsVars
  /\ UNCHANGED link_failures

\* variant of mqtt_reconnect_failed: the WiFi pattern is shown
mqtt_reconnect_failed_wifi_code ==
  /\ pc = "mqtt_result"
  /\ ~ret
  /\ mqtt_reconnect_attempt_count < MaxRetry
  /\ mqtt_reconnect_attempt_count' = mqtt_reconnect_attempt_count + 1
  /\ trace' = Append(trace, Ev("mqtt_count", "inc", TRUE, mqtt_reconnect_attempt_count'))
  /\ led_code' = WifiErrorCode
  /\ tenths' = 0
  /\ pc' = "led_continuous_error"
  /\ UNCHANGED <<startupVars, wlan_ssid, client, ret, wifi_error_state,
                 mqtt_error_state, wifi_reconnect_attempt_count, i, blinks,
                 error_log, runVars>>
  /\ UNCHANGED obsVars
  /\ UNCHANGED link_failures

\* mqtt_reconnect_attempt returned False: count += 1, led_continuous_error(2, 5)
mqtt_reconnect_failed ==
  /\ pc = "mqtt_result"
  /\ ~ret
  /\ mqtt_reconnect_attempt_count < MaxRetry
  /\ mqtt_reconnect_attempt_count' = mqtt_reconnect_attempt_count + 1
  /\ trace' = Append(trace, Ev("mqtt_count", "inc", TRUE, mqtt_reconnect_attempt_count'))
  /\ led_code' = MqttErrorCode
  /\ tenths' = 0
  /\ pc' = "led_continuous_error"
  /\ UNCHANGED <<startupVars, wlan_ssid, client, ret, wifi_error_state,
                 mqtt_error_state, wifi_reconnect_attempt_count, i, blinks,
                 error_log, runVars>>
  /\ UNCHANGED obsVars
  /\ UNCHANGED link_failures

\* ------------------------------------------- main loop: normal operation
\* for i in range(6): led_normal_flash(); time.sleep(10)
heartbeat ==
  /\ pc = "flash"
  /\ i < HeartbeatPulses
  /\ i' = i + 1
  /\ trace' = Append(trace, Ev("flash", "pulse", TRUE, i'))
  /\ UNCHANGED <<pc, startupVars, wlan_ssid, tenths, client, ret, flagVars,
                 led_code, blinks, error_log, runVars>>
  /\ UNCHANGED obsVars
  /\ UNCHANGED link_failures

\* variant of sensor_read_data: the read is made after the fifth pulse already
sensor_read_data_early ==
  /\ pc = "flash"
  /\ i >= HeartbeatPulses - 1
  /\ trace' = Append(trace, Ev("sensor", "data", TRUE, 0))
  /\ pc' = "publish_measurement"
  /\ UNCHANGED <<startupVars, wlan_ssid, tenths, client, ret, flagVars, i,
                 led_code, blinks, error_log, runVars>>
  /\ UNCHANGED obsVars
  /\ UNCHANGED link_failures

\* result = sensor.read_measurement(): a measurement
sensor_read_data ==
  /\ pc = "flash"
  /\ i = HeartbeatPulses
  /\ trace' = Append(trace, Ev("sensor", "data", TRUE, 0))
  /\ pc' = "publish_measurement"
  /\ UNCHANGED <<startupVars, wlan_ssid, tenths, client, ret, flagVars, i,
                 led_code, blinks, error_log, runVars>>
  /\ UNCHANGED obsVars
  /\ UNCHANGED link_failures

\* variant of sensor_read_none: the measurement branch is taken
sensor_read_none_as_data ==
  /\ pc = "flash"
  /\ i = HeartbeatPulses
  /\ trace' = Append(trace, Ev("sensor", "none", TRUE, 0))
  /\ pc' = "publish_measurement"
  /\ UNCHANGED <<startupVars, wlan_ssid, tenths, client, ret, flagVars, i,
                 led_code, blinks, error_log, runVars>>
  /\ UNCHANGED obsVars
  /\ UNCHANGED link_failures

\* result is None
sensor_read_none ==
  /\ pc = "flash"
  /\ i = HeartbeatPulses
  /\ trace' = Append(trace, Ev("sensor", "none", TRUE, 0))
  /\ pc' = "publish_waiting"
  /\ UNCHANGED <<startupVars, wlan_ssid, tenths, client, ret, flagVars, i,
                 led_code, blinks, error_log, runVars>>
  /\ UNCHANGED obsVars
  /\ UNCHANGED link_failures

\* read_measurement() raised: the except of the loop body logs and calls
\* led_error(4)
sensor_read_raised ==
  /\ pc = "flash"
  /\ i = HeartbeatPulses
  /\ trace' = Append(trace, Ev("sensor", "raised", FALSE, 0))
  /\ error_log' = "Main loop error"
  /\ led_code' = RuntimeErrorCode
  /\ blinks' = 0
  /\ pc' = "led_error"
  /\ UNCHANGED <<startupVars, wlan_ssid, tenths, client, ret, flagVars, i,
                 runVars>>
  /\ UNCHANGED obsVars
  /\ UNCHANGED link_failures

\* client.publish(MQTT_TOPIC, payload) succeeded
publish_measurement_ok ==
  /\ pc = "publish_measurement"
  /\ trace' = Append(trace, Ev("publish", "telemetry", TRUE, 0))
  /\ EndOfTick(trace')
  /\ pc' = "loop_top"
  /\ UNCHANGED <<startupVars, wlan_ssid, tenths, client, ret, flagVars, i,
                 led_code, blinks, error_log>>
  /\ UNCHANGED obsVars
  /\ UNCHANGED link_failures

\* variant of publish_measurement_failed: the failed publish marks the link as
\* lost too
publish_measurement_failed_marks_wifi ==
  /\ pc = "publish_measurement"
  /\ trace' = Append(trace, Ev("publish", "telemetry", FALSE, 0))
  /\ error_log' = "MQTT publish failed"
  /\ mqtt_error_state' = TRUE
  /\ mqtt_reconnect_attempt_count' = 0
  /\ wifi_error_state' = TRUE
  /\ EndOfTick(trace')
  /\ pc' = "loop_top"
  /\ UNCHANGED <<startupVars, wlan_ssid, tenths, client, ret,
                 wifi_reconnect_attempt_count, i, led_code, blinks>>
  /\ broker_ticks' = 0
  /\ UNCHANGED <<link_check, session_outage>>
  /\ UNCHANGED link_failures

\* it raised: log, mqtt_error_state = True, count = 0
publish_measurement_failed ==
  /\ pc = "publish_measurement"
  /\ trace' = Append(trace, Ev("publish", "telemetry", FALSE, 0))
  /\ error_log' = "MQTT publish failed"
  /\ mqtt_error_state' = TRUE
  /\ mqtt_reconnect_attempt_count' = 0
  /\ EndOfTick(trace')
  /\ pc' = "loop_top"
  /\ UNCHANGED <<startupVars, wlan_ssid, tenths, client, ret, wifi_error_state,
                 wifi_reconnect_attempt_count, i, led_code, blinks>>
  /\ broker_ticks' = 0
  /\ UNCHANGED <<link_check, session_outage>>
  /\ UNCHANGED link_failures

\* variant of publish_waiting_ok: the waiting event is published twice
publish_waiting_ok_twice ==
  /\ pc = "publish_waiting"
  /\ trace' = trace \o <<Ev("publish", "waiting", TRUE, 0),
                         Ev("publish", "waiting", TRUE, 0)>>
  /\ EndOfTick(trace')
  /\ pc' = "loop_top"
  /\ UNCHANGED <<startupVars, wlan_ssid, tenths, client, ret, flagVars, i,
                 led_code, blinks, error_log>>
  /\ UNCHANGED obsVars
  /\ UNCHANGED link_failures

\* client.publish(b"sensors/scd40/events", waiting_msg) succeeded
publish_waiting_ok ==
  /\ pc = "publish_waiting"
  /\ trace' = Append(trace, Ev("publish", "waiting", TRUE, 0))
  /\ EndOfTick(trace')
  /\ pc' = "loop_top"
  /\ UNCHANGED <<startupVars, wlan_ssid, tenths, client, ret, flagVars, i,
                 led_code, blinks, error_log>>
  /\ UNCHANGED obsVars
  /\ UNCHANGED link_failures

\* it raised: log, mqtt_error_state = True, count = 0
publish_waiting_failed ==
  /\ pc = "publish_waiting"
  /\ trace' = Append(trace, Ev("publish", "waiting", FALSE, 0))
  /\ error_log' = "MQTT publish failed"
  /\ mqtt_error_state' = TRUE
  /\ mqtt_reconnect_attempt_count' = 0
  /\ EndOfTick(trace')
  /\ pc' = "loop_top"
  /\ UNCHANGED <<startupVars, wlan_ssid, tenths, client, ret, wifi_error_state,
                 wifi_reconnect_attempt_count, i, led_code, blinks>>
  /\ broker_ticks' = 0
  /\ UNCHANGED <<link_check, session_outage>>
  /\ UNCHANGED link_failures

Next ==
  \/ led_startup
  \/ cw_for_connect
  \/ cw_for_exhausted
  \/ cw_while_connected
  \/ cw_while_timeout
  \/ cw_while_sleep
  \/ cw_if_connected
  \/ cw_if_failed
  \/ startup_wifi_failed
  \/ startup_mqtt_connected
  \/ startup_mqtt_failed
  \/ sensor_init_ok
  \/ sensor_init_absent
  \/ sensor_init_fault
  \/ led_error
  \/ led_continuous_error
  \/ tick_wifi_error_state
  \/ tick_link_lost
  \/ tick_mqtt_error_state
  \/ tick_normal
  \/ wra_connect
  \/ wra_connect_raised
  \/ wra_while_connected
  \/ wra_while_timeout
  \/ wra_while_pattern
  \/ wra_if_connected
  \/ wra_if_failed
  \/ wifi_reconnect_success
  \/ wifi_reconnect_failed
  \/ mra_wifi_down
  \/ mra_wifi_up
  \/ mra_connected
  \/ mra_failed
  \/ mqtt_reconnected_published
  \/ mqtt_reconnected_publish_failed
  \/ mqtt_reconnect_failed
  \/ heartbeat
  \/ sensor_read_data
  \/ sensor_read_none
  \/ sensor_read_raised
  \/ publish_measurement_ok
  \/ publish_measurement_failed
  \/ publish_waiting_ok
  \/ publish_waiting_failed

Spec == Init /\ [][Next]_vars

FairSpec == Spec /\ WF_vars(Next)

\* ================================================================ properties
LinkBranch ==
  {"wra_connect", "wra_while", "wra_if", "wifi_result", "led_continuous_error"}

MainLoop ==
  LinkBranch \cup {"loop_top", "mra_check", "mra_connect", "mqtt_result", "flash",
                   "publish_measurement", "publish_waiting"}

Last(tr) == tr[Len(tr)]

\* C1 (link priority): in a tick whose top found the link down (or found the
\* WiFi flag already set), whatever the MQTT flag, only the link-recovery branch
\* runs: no MQTT reconnect, no MQTT counter increment, no heartbeat, sensor
\* read or publish; the state is RecoveringLink during the tick and
\* RecoveringLink or, exactly when the reconnect succeeded, Normal after it.
C1_LinkPriority ==
  (trace # <<>> /\ trace[1].arg # "up") =>
    /\ ~HasOp(trace, "mqtt_link")
    /\ ~HasOp(trace, "mqtt_connect")
    /\ ~HasOp(trace, "mqtt_count")
    /\ ~HasOp(trace, "flash")
    /\ ~HasOp(trace, "sensor")
    /\ ~HasOp(trace, "publish")
    /\ pc \in LinkBranch \cup {"loop_top"}
    /\ pc \in LinkBranch => ConnectionState = "RecoveringLink"
    /\ pc = "loop_top" =>
         /\ HasOp(trace, "wifi_connect")
         /\ ConnectionState \in {"RecoveringLink", "Normal"}
         /\ ConnectionState = "Normal" <=> Count(trace, "wifi_reconnect", "result", TRUE) = 1

\* a tick that found the link down while MQTT recovery was in progress has
\* ended with a failed WiFi reconnect
C1_Witness ==
  /\ pc = "loop_top"
  /\ trace # <<>>
  /\ trace[1].arg = "down"
  /\ mqtt_error_state
  /\ mqtt_reconnect_attempt_count > 0
  /\ ConnectionState = "RecoveringLink"

\* C2 (no silent broker recovery): a step from RecoveringBroker to Normal is
\* the end of a tick in which the MQTT reconnect succeeded and the
\* mqtt_reconnected event was published; a tick whose reconnect succeeded and
\* whose notification publish failed ends in RecoveringBroker.
C2_NoSilentRecovery ==
  [][ /\ (ConnectionState = "RecoveringBroker" /\ ConnectionState' = "Normal") =>
           /\ pc = "mqtt_result"
           /\ ret
           /\ Count(trace', "mqtt_connect", "call", TRUE) = 1
           /\ Count(trace', "publish", "mqtt_reconnected", TRUE) = 1
      /\ (pc = "mqtt_result" /\ pc' = "loop_top"
            /\ Count(trace', "publish", "mqtt_reconnected", FALSE) > 0) =>
           /\ Count(trace', "mqtt_connect", "call", TRUE) = 1
           /\ ConnectionState' = "RecoveringBroker"
    ]_vars

\* a tick reconnected to the broker, failed to publish the notification and
\* ended in RecoveringBroker
C2_Witness ==
  /\ pc = "loop_top"
  /\ Count(trace, "mqtt_connect", "call", TRUE) = 1
  /\ Count(trace, "publish", "mqtt_reconnected", FALSE) = 1
  /\ ConnectionState = "RecoveringBroker"

\* C3 (a fault does not stop the loop): a fault raised in a tick is logged and
\* reported with code 4, and after it a further tick is eventually started.
C3_LoopContinuesAfterFault ==
  /\ [](Has(trace, "sensor", "raised") =>
          error_log = "Main loop error" /\ led_code = RuntimeErrorCode)
  /\ (Has(trace, "sensor", "raised") ~> pc = "loop_top")

\* C4 (link reconnect resets the broker state): after a tick whose WiFi
\* reconnect succeeded the MQTT flag is clear, both counters are 0 and the
\* state is Normal, whether or not MQTT recovery was in progress.
C4_LinkReconnectResetsBroker ==
  (pc = "loop_top" /\ Has(trace, "wifi_reconnect", "result")
     /\ Count(trace, "wifi_reconnect", "result", TRUE) = 1) =>
    /\ mqtt_reconnect_attempt_count = 0
    /\ ~mqtt_error_state
    /\ wifi_reconnect_attempt_count = 0
    /\ ~wifi_error_state
    /\ ConnectionState = "Normal"

\* the WiFi reconnect succeeded while MQTT recovery was in progress with a
\* counter above 0
C4_Witness ==
  /\ pc = "loop_top"
  /\ Count(trace, "wifi_reconnect", "result", TRUE) = 1
  /\ \E k \in DOMAIN trace : trace[k].op = "mqtt_reset" /\ trace[k].n > 0
  /\ mqtt_reconnect_attempt_count = 0

\* C5 (entering and first failure of broker recovery): a failed publish of the
\* sampling cycle gives RecoveringBroker with counter 0; a failed MQTT
\* reconnect at counter 0 gives counter 1, starts the code 2 display and keeps
\* RecoveringBroker; the display returns only after its 5 second window, with
\* state and counters as they were.
C5_BrokerRecoveryEntry ==
  [][ /\ (pc \in {"publish_measurement", "publish_waiting"} /\ pc' = "loop_top"
            /\ ~Last(trace').ok) =>
           /\ ConnectionState' = "RecoveringBroker"
           /\ mqtt_reconnect_attempt_count' = 0
      /\ (pc = "mqtt_result" /\ ~ret /\ mqtt_reconnect_attempt_count = 0
            /\ pc' # pc) =>
           /\ mqtt_reconnect_attempt_count' = 1
           /\ pc' = "led_continuous_error"
           /\ led_code' = MqttErrorCode
           /\ ConnectionState' = "RecoveringBroker"
      /\ (pc = "led_continuous_error" /\ pc' = "loop_top") =>
           /\ Last(trace') = Ev("led", "shown", TRUE, led_code)
           /\ led_code = (IF HasOp(trace, "mqtt_count") THEN MqttErrorCode
                                                        ELSE WifiErrorCode)
           /\ UNCHANGED flagVars
    ]_vars

\* the first MQTT reconnect after a failed publish failed: counter 1, code 2
\* shown for the window, still RecoveringBroker
C5_Witness ==
  /\ pc = "loop_top"
  /\ Count(trace, "mqtt_connect", "call", FALSE) = 1
  /\ Last(trace) = Ev("led", "shown", TRUE, MqttErrorCode)
  /\ mqtt_reconnect_attempt_count = 1
  /\ ConnectionState = "RecoveringBroker"

\* C6 as stated: a sampling cycle whose sensor read returned no data ends in
\* Normal with exactly one waiting event published and no measurement.
C6_Original ==
  (pc = "loop_top" /\ Has(trace, "sensor", "none")) =>
    /\ ConnectionState = "Normal"
    /\ Count(trace, "publish", "waiting", TRUE) = 1
    /\ ~Has(trace, "publish", "telemetry")

\* C6 (amended): a sampling cycle whose sensor read returned no data makes
\* exactly one publish attempt, of the waiting event, and none of a
\* measurement; if that publish succeeds the state is Normal with the counters
\* 0 after the cycle, if it fails the state is RecoveringBroker with counter 0.
C6_NoDataCycle ==
  (pc = "loop_top" /\ Has(trace, "sensor", "none")) =>
    /\ Count(trace, "publish", "waiting", TRUE)
         + Count(trace, "publish", "waiting", FALSE) = 1
    /\ ~Has(trace, "publish", "telemetry")
    /\ ~Has(trace, "publish", "mqtt_reconnected")
    /\ Count(trace, "publish", "waiting", TRUE) = 1 =>
         /\ ConnectionState = "Normal"
         /\ wifi_reconnect_attempt_count = 0
         /\ mqtt_reconnect_attempt_count = 0
    /\ Count(trace, "publish", "waiting", FALSE) = 1 =>
         /\ ConnectionState = "RecoveringBroker"
         /\ mqtt_reconnect_attempt_count = 0

\* a no-data cycle has ended with its waiting event published
C6_Witness ==
  /\ pc = "loop_top"
  /\ Has(trace, "sensor", "none")
  /\ Last(trace) = Ev("publish", "waiting", TRUE, 0)
  /\ ConnectionState = "Normal"

\* C7 (k healthy no-data ticks): during a run of k consecutive ticks with the
\* link up, no data and no failed publish, exactly k waiting events and no
\* measurement have been published, and after each of them the state is
\* Normal with both counters 0.
C7_HealthyNoDataTicks ==
  /\ waiting_events = healthy_ticks
  /\ measurement_events = 0
  /\ (healthy_ticks > 0 /\ pc = "loop_top") =>
       /\ ConnectionState = "Normal"
       /\ wifi_reconnect_attempt_count = 0
       /\ mqtt_reconnect_attempt_count = 0

\* three healthy no-data ticks in a row have ended
C7_Witness ==
  /\ pc = "loop_top"
  /\ healthy_ticks = 3
  /\ waiting_events = 3

InConnectWifi == pc \in {"cw_for", "cw_while", "cw_if"}

NeverConnected ==
  \A k \in DOMAIN attempts : ~attempts[k].seen /\ ~attempts[k].connected

\* C8 (bounded candidate scan): connect_wifi tries the candidates in list
\* order, each at most once; when no isconnected() ever returned True it
\* returns (None, None) after exactly N attempts, each ended by its timeout,
\* with the exhaustion logged; and it always returns.
C8_BoundedScan ==
  /\ [](/\ Len(attempts) <= Len(WIFI_NETWORKS)
        /\ \A k \in DOMAIN attempts : attempts[k].ssid = WIFI_NETWORKS[k]
        /\ (pc = "startup_wifi" /\ NeverConnected) =>
             /\ successful_network = 0
             /\ Len(attempts) = Len(WIFI_NETWORKS)
             /\ \A k \in DOMAIN attempts : attempts[k].timed_out
             /\ error_log = "WiFi connection failed - all networks exhausted")
  /\ (InConnectWifi ~> pc = "startup_wifi")

\* two candidates, both timed out, (None, None) returned
C8_Witness ==
  /\ pc = "startup_wifi"
  /\ Len(WIFI_NETWORKS) = 2
  /\ Len(attempts) = 2
  /\ NeverConnected
  /\ successful_network = 0

\* C9 (first connected candidate, reconnect to it only): the network
\* connect_wifi returns is the first of the list whose wait ended connected,
\* all candidates before it having been tried and given up; every wlan.connect
\* of a reconnect is to that network, and so is the association throughout the
\* main loop.
C9_FirstConnectedCandidate ==
  /\ successful_network # 0 =>
       LET k == Len(attempts) IN
         /\ k >= 1
         /\ attempts[k].connected
         /\ attempts[k].ssid = successful_network
         /\ WIFI_NETWORKS[k] = successful_network
         /\ \A j \in 1..(k - 1) :
              ~attempts[j].connected /\ attempts[j].ssid = WIFI_NETWORKS[j]
  /\ \A k \in DOMAIN trace :
       trace[k].op = "wifi_connect" => trace[k].n = successful_network
  /\ pc \in MainLoop => (successful_network # 0 /\ wlan_ssid = successful_network)

\* the first candidate timed out, the second connected, and a reconnect has
\* been issued to the second
C9_Witness ==
  /\ Len(attempts) = 2
  /\ attempts[1].timed_out
  /\ ~attempts[1].connected
  /\ successful_network = WIFI_NETWORKS[2]
  /\ Has(trace, "wifi_connect", "call")
  /\ pc = "wra_while"
  /\ wlan_ssid = WIFI_NETWORKS[2]

\* C10 (sensor failure at start-up is not fatal to the process): after the
\* SCD-40 is found absent or its initialisation raised, the main loop is
\* eventually entered.
C10_LoopEnteredAfterSensorFailure ==
  (error_log \in {"SCD-40 not found on I2C bus", "Sensor initialization failed"})
    ~> (pc = "loop_top")

\* a link or broker failure has just happened: the start-up scan or the
\* start-up MQTT connect failed, a reconnect attempt returned False, or a
\* publish of the sampling cycle raised
LinkOrBrokerFailure ==
  \/ pc = "led_error" /\ led_code \in {WifiErrorCode, MqttErrorCode}
  \/ pc \in {"wifi_result", "mqtt_result"} /\ ~ret
  \/ pc = "loop_top" /\ trace # <<>> /\ Last(trace).op = "publish" /\ ~Last(trace).ok

\* C11 (link and broker failures never stop the process): after every link or
\* broker failure a further recovery attempt or tick is eventually started.
C11_ProgressAfterLinkBrokerFailure ==
  LinkOrBrokerFailure ~> (pc \in {"wra_connect", "mra_check", "flash"})

\* C12 (only a failed publish enters RecoveringBroker): every step that sets
\* mqtt_error_state, and every step that makes the state RecoveringBroker, is
\* the failing publish of a sampling cycle of a tick that found the link up.
C12_OnlyPublishFailureEntersBroker ==
  [][ ((~mqtt_error_state /\ mqtt_error_state')
        \/ (ConnectionState # "RecoveringBroker"
              /\ ConnectionState' = "RecoveringBroker")) =>
        /\ pc \in {"publish_measurement", "publish_waiting"}
        /\ Len(trace') = Len(trace) + 1
        /\ Last(trace').op = "publish"
        /\ Last(trace').arg \in {"telemetry", "waiting"}
        /\ ~Last(trace').ok
        /\ HasOp(trace', "sensor")
        /\ trace'[1] = Ev("link", "up", TRUE, 0)
    ]_vars

\* the measurement publish failed and the MQTT flag is set
C12_Witness ==
  /\ pc = "loop_top"
  /\ mqtt_error_state
  /\ Has(trace, "sensor", "data")
  /\ Last(trace) = Ev("publish", "telemetry", FALSE, 0)

\* C13 (link retry counter): the counter is set to 0 when the WiFi flag is
\* set; a failed reconnect increments it by 1, keeps RecoveringLink and shows
\* code 1 until the 5 second window has passed; nothing else changes it; so it
\* equals the number of failed reconnects of the episode, and it is 0 after the
\* successful reconnect.
C13_LinkRetryCounter ==
  /\ [](/\ wifi_reconnect_attempt_count = (IF wifi_error_state /\ pc # "wifi_result"
                                           THEN link_failures
                                           ELSE IF wifi_error_state
                                           THEN link_failures - (IF ret THEN 0 ELSE 1)
                                           ELSE 0)
        /\ (pc = "led_continuous_error" /\ led_code = WifiErrorCode) =>
             ConnectionState = "RecoveringLink")
  /\ [][ /\ (~wifi_error_state /\ wifi_error_state') =>
              wifi_reconnect_attempt_count' = 0
         /\ (pc = "wifi_result" /\ ~ret /\ pc' # pc) =>
              /\ wifi_reconnect_attempt_count' = wifi_reconnect_attempt_count + 1
              /\ ConnectionState' = "RecoveringLink"
              /\ pc' = "led_continuous_error"
              /\ led_code' = WifiErrorCode
         /\ (pc = "led_continuous_error" /\ led_code = WifiErrorCode
               /\ pc' = "loop_top") =>
              /\ Last(trace') = Ev("led", "shown", TRUE, WifiErrorCode)
              /\ ConnectionState' = "RecoveringLink"
         /\ (pc = "wifi_result" /\ ret /\ pc' # pc) =>
              /\ wifi_reconnect_attempt_count' = 0
              /\ ConnectionState' = "Normal"
       ]_vars

\* two reconnects in a row have failed in one episode: the counter is 2
C13_Witness ==
  /\ pc = "loop_top"
  /\ wifi_error_state
  /\ link_failures = 2
  /\ wifi_reconnect_attempt_count = 2
  /\ Last(trace) = Ev("led", "shown", TRUE, WifiErrorCode)

\* a step in which an operation of the main loop fails: a WiFi reconnect or a
\* broker reconnect returns False, a publish raises, or the sensor read raises
OperationFails ==
  \/ wra_connect_raised
  \/ wra_if_failed
  \/ mra_wifi_down
  \/ mra_failed
  \/ mqtt_reconnected_publish_failed
  \/ publish_measurement_failed
  \/ publish_waiting_failed
  \/ sensor_read_raised

\* the same, or the link is found down at the top of a tick
FailingStep == OperationFails \/ tick_link_lost

InRecovery == pc \in MainLoop /\ ConnectionState # "Normal"

SamplingCycle == pc = "flash" /\ ConnectionState = "Normal"

\* whatever the counters, a tick in a recovery state makes a reconnect attempt,
\* a recovery flag is cleared only by a successful reconnect, and the recovery
\* branches never leave the main loop
RecoveryUnbounded ==
  /\ [](pc = "loop_top" /\ wifi_error_state => ENABLED tick_wifi_error_state)
  /\ [](pc = "loop_top" /\ mqtt_error_state =>
          ENABLED (tick_mqtt_error_state \/ tick_link_lost \/ tick_wifi_error_state))
  /\ [][ /\ (wifi_error_state /\ ~wifi_error_state') => (pc = "wifi_result" /\ ret)
         /\ (mqtt_error_state /\ ~mqtt_error_state') =>
              (pc \in {"wifi_result", "mqtt_result"} /\ ret)
         /\ pc \in MainLoop \ {"flash"} => pc' \in MainLoop
       ]_vars

\* C14 as stated: recovery never stops on a counter value, and if from some
\* point on the reconnects, the broker connect and the publishes succeed and
\* no fault is raised, a system in recovery eventually is Normal and runs a
\* sampling cycle.
C14_Original ==
  /\ RecoveryUnbounded
  /\ (<>[][~OperationFails]_vars) => (InRecovery ~> SamplingCycle)

\* C14 (amended): the same, under the further condition that from some point
\* on the link is found connected at the top of every tick.
C14_RecoveryUnboundedAndSucceeds ==
  /\ RecoveryUnbounded
  /\ (<>[][~FailingStep]_vars) => (InRecovery ~> SamplingCycle)

\* both counters have reached the bound and the system is still retrying
C14_Witness ==
  /\ pc = "wra_connect"
  /\ wifi_error_state
  /\ mqtt_error_state
  /\ wifi_reconnect_attempt_count = MaxRetry
  /\ mqtt_reconnect_attempt_count = MaxRetry

\* a step that constructs an MQTTClient and calls client.connect(): the startup
\* connect or the connect of mqtt_reconnect_attempt
BrokerConnectStep ==
  \/ pc = "startup_wifi" /\ successful_network # 0 /\ pc' # pc
  \/ pc = "mra_connect" /\ pc' # pc

\* C15 (no broker session over a dead link): every broker connect, at startup
\* and in mqtt_reconnect_attempt, is made when the most recent isconnected()
\* returned True, and the client changes in no other step; when
\* mqtt_reconnect_attempt finds the link down it returns False with the client
\* left as it was and no connect made.
C15_NoSessionOverDeadLink ==
  [][ /\ BrokerConnectStep => link_check = "up"
      /\ client' # client => BrokerConnectStep
      /\ (pc = "mra_check" /\ link_check' = "down") =>
           /\ client' = client
           /\ ret' = FALSE
           /\ pc' = "mqtt_result"
           /\ ~HasOp(trace', "mqtt_connect")
    ]_vars

\* mqtt_reconnect_attempt has just returned False on a dead link, and the client
\* is still the one connected earlier
C15_Witness ==
  /\ pc = "mqtt_result"
  /\ ~ret
  /\ link_check = "down"
  /\ Last(trace) = Ev("mqtt_link", "down", FALSE, 0)
  /\ client = "connected"

\* C16 (fresh session after link recovery): a publish of the sampling cycle is
\* never made on a session opened before a link outage; after a link recovery
\* the first publish uses a session opened (client.connect()) after the link
\* came back.
C16_FreshSessionAfterLinkRecovery ==
  pc \in {"publish_measurement", "publish_waiting"} => ~session_outage

\* the events of a sampling cycle up to its n-th heartbeat pulse: the link test
\* of line 271, then the pulses of the for loop in order
Pulses(n) ==
  <<Ev("link", "up", TRUE, 0)>> \o [k \in 1..n |-> Ev("flash", "pulse", TRUE, k)]

\* an event of the sampling cycle
IsSamplingEvent(e) ==
  \/ e.op \in {"flash", "sensor"}
  \/ e.op = "publish" /\ e.arg \in {"telemetry", "waiting"}

\* the positions of the two recovery branches of a tick
RecoveryBranch ==
  {"wra_connect", "wra_while", "wra_if", "wifi_result", "led_continuous_error",
   "mra_check", "mra_connect", "mqtt_result"}

\* C17 (sampling cycle): the cycle runs only in a tick that found the link up
\* with both flags clear; it makes the 6 heartbeat pulses in order, then one
\* sensor read, then, when the read returned, one publish attempt: telemetry
\* for a measurement, the waiting event for None; a tick in a recovery branch
\* makes no pulse, no sensor read and no such publish.
C17_SamplingCycleOrder ==
  /\ pc = "flash" =>
       /\ ConnectionState = "Normal"
       /\ i \in 0..HeartbeatPulses
       /\ trace = Pulses(i)
  /\ pc = "publish_measurement" =>
       /\ ConnectionState = "Normal"
       /\ trace = Append(Pulses(HeartbeatPulses), Ev("sensor", "data", TRUE, 0))
  /\ pc = "publish_waiting" =>
       /\ ConnectionState = "Normal"
       /\ trace = Append(Pulses(HeartbeatPulses), Ev("sensor", "none", TRUE, 0))
  /\ (pc = "loop_top" /\ \E k \in DOMAIN trace : IsSamplingEvent(trace[k])) =>
       \E ok \in BOOLEAN :
         \/ trace = Pulses(HeartbeatPulses) \o
                      <<Ev("sensor", "data", TRUE, 0),
                        Ev("publish", "telemetry", ok, 0)>>
         \/ trace = Pulses(HeartbeatPulses) \o
                      <<Ev("sensor", "none", TRUE, 0),
                        Ev("publish", "waiting", ok, 0)>>
  /\ pc \in RecoveryBranch =>
       /\ ConnectionState # "Normal"
       /\ \A k \in DOMAIN trace : ~IsSamplingEvent(trace[k])

\* a tick has just ended with six pulses, a measurement and its publish
C17_Witness ==
  /\ pc = "loop_top"
  /\ trace = Pulses(HeartbeatPulses) \o
               <<Ev("sensor", "data", TRUE, 0), Ev("publish", "telemetry", TRUE, 0)>>

\* both recovery flags are set
BothFlags == wifi_error_state /\ mqtt_error_state

\* C18 as stated: in the main loop the two recovery flags are never both set.
C18_Original == pc \in MainLoop => ~BothFlags

\* C18 (amended): with the state read from the flags link first, the main loop
\* is in exactly one state at every point. Both flags are set only between the
\* detection of a link loss during a pending broker recovery and the successful
\* link reconnect, and then only the link-recovery branch runs; the broker
\* branch runs with the link flag clear, the sampling cycle with both clear; a
\* failed publish sets the broker flag alone.
C18_ExactlyOneState ==
  /\ [](pc \in MainLoop =>
          /\ BothFlags => pc \in LinkBranch \cup {"loop_top"}
          /\ pc \in {"wra_connect", "wra_while", "wra_if", "wifi_result"} =>
               ConnectionState = "RecoveringLink"
          /\ pc \in {"mra_check", "mra_connect", "mqtt_result"} =>
               ConnectionState = "RecoveringBroker"
          /\ pc = "led_continuous_error" =>
               ConnectionState = (IF led_code = WifiErrorCode
                                  THEN "RecoveringLink" ELSE "RecoveringBroker")
          /\ pc \in {"flash", "publish_measurement", "publish_waiting"} =>
               ConnectionState = "Normal")
  /\ [][ /\ (~BothFlags /\ BothFlags') =>
              /\ pc = "loop_top"
              /\ mqtt_error_state
              /\ trace' = <<Ev("link", "down", TRUE, 0)>>
         /\ (BothFlags /\ ~BothFlags') =>
              /\ pc = "wifi_result"
              /\ ret
              /\ ConnectionState' = "Normal"
         /\ pc \in {"publish_measurement", "publish_waiting"} =>
              ~wifi_error_state'
       ]_vars

\* a link reconnect is under way while the broker flag is still set
C18_Witness ==
  /\ pc = "wra_while"
  /\ BothFlags
  /\ ConnectionState = "RecoveringLink"

\* C19 (cleared flag, zero counter): at the top of the while loop a cleared
\* wifi_error_state implies wifi_reconnect_attempt_count = 0 and a cleared
\* mqtt_error_state implies mqtt_reconnect_attempt_count = 0; both counters
\* are 0 in the Normal state.
C19_ClearedFlagZeroCounter ==
  pc = "loop_top" =>
    /\ ~wifi_error_state => wifi_reconnect_attempt_count = 0
    /\ ~mqtt_error_state => mqtt_reconnect_attempt_count = 0
    /\ ConnectionState = "Normal" =>
         wifi_reconnect_attempt_count = 0 /\ mqtt_reconnect_attempt_count = 0

\* a broker recovery has just ended at its second attempt or later, and the
\* tick boundary finds the state Normal with both counters 0
C19_Witness ==
  /\ pc = "loop_top"
  /\ ConnectionState = "Normal"
  /\ trace # <<>>
  /\ Last(trace).op = "publish"
  /\ Last(trace).arg = "mqtt_reconnected"
  /\ Last(trace).ok
  /\ Last(trace).n >= 2
  /\ mqtt_reconnect_attempt_count = 0
  /\ wifi_reconnect_attempt_count = 0

\* the mqtt_reconnected event
IsReconnectedEvent(e) == e.op = "publish" /\ e.arg = "mqtt_reconnected"

\* C20 (attempts of mqtt_reconnected): the attempts value of every
\* mqtt_reconnected event is at least 1 and is the number of broker-recovery
\* ticks run since the publish failure that opened the episode, the tick of
\* the event included; every broker-recovery tick adds exactly 1 to
\* mqtt_reconnect_attempt_count, also the tick whose notification publish
\* fails, which leaves the flag set and the count not reset.
C20_AttemptsCountsBrokerTicks ==
  /\ [](/\ \A k \in DOMAIN trace :
             IsReconnectedEvent(trace[k]) =>
               trace[k].n >= 1 /\ trace[k].n = broker_ticks
        /\ pc \in {"mra_check", "mra_connect", "mqtt_result"} =>
             broker_ticks = mqtt_reconnect_attempt_count + 1
        /\ (mqtt_error_state /\
            (pc = "loop_top" \/
               (pc = "led_continuous_error" /\ led_code = MqttErrorCode))) =>
             broker_ticks = mqtt_reconnect_attempt_count)
  /\ [][ /\ pc = "mqtt_result" =>
              \/ /\ mqtt_reconnect_attempt_count' = mqtt_reconnect_attempt_count + 1
                 /\ mqtt_error_state'
              \/ /\ Last(trace') = Ev("publish", "mqtt_reconnected", TRUE,
                                      mqtt_reconnect_attempt_count + 1)
                 /\ mqtt_reconnect_attempt_count' = 0
                 /\ ~mqtt_error_state'
         /\ (pc = "mqtt_result" /\ IsReconnectedEvent(Last(trace')) /\
             ~Last(trace').ok) =>
              /\ mqtt_reconnect_attempt_count' = mqtt_reconnect_attempt_count + 1
              /\ mqtt_error_state'
         /\ mqtt_reconnect_attempt_count' # mqtt_reconnect_attempt_count =>
              pc = "mqtt_result" \/ mqtt_reconnect_attempt_count' = 0
       ]_vars

\* the event has just been published in the third tick of an episode or later
C20_Witness ==
  /\ pc = "loop_top"
  /\ trace # <<>>
  /\ IsReconnectedEvent(Last(trace))
  /\ Last(trace).ok
  /\ Last(trace).n > MaxRetry
  /\ Last(trace).n = broker_ticks
====
